---- MODULE Spec2Model ----
(***************************************************************************)
(* Exponential moving average: the two algorithms of src/lib.rs, EmaFast   *)
(* and EmaCorrect, over IEEE-754 binary64 (Rust f64) arithmetic.           *)
(*                                                                         *)
(* An f64 is modelled bit-exactly for finite values in the normal range:   *)
(* a record [neg, man, exp] standing for (-1)^neg * man * 2^exp, with man  *)
(* either zero or a 53-bit natural (2^52 <= man < 2^53).  Every arithmetic *)
(* operation computes the exact result and rounds it to nearest, ties to   *)
(* even, as the hardware does.  Mantissas and exact intermediate results   *)
(* exceed the model checker's integers, so naturals are kept as sequences  *)
(* of limbs (little-endian, base 2^15, no leading zero limb).  NaN,        *)
(* infinities and subnormals are outside the modelled domain: the          *)
(* observations fed below keep every intermediate result far inside the    *)
(* normal range.  +0.0 and -0.0 compare equal in Rust and are one value    *)
(* here.                                                                   *)
(***************************************************************************)
EXTENDS Integers, Sequences, FiniteSets, TLC

----------------------------------------------------------------------------
(* Naturals of arbitrary size: little-endian sequences of limbs.           *)

Base == 2^15

RECURSIVE Trim(_)
Trim(a) ==
    IF a = <<>> THEN <<>>
    ELSE IF a[Len(a)] = 0 THEN Trim(SubSeq(a, 1, Len(a) - 1))
    ELSE a

RECURSIVE BigOfInt(_)
BigOfInt(n) ==
    IF n = 0 THEN <<>> ELSE <<n % Base>> \o BigOfInt(n \div Base)

Limb(a, i) == IF i <= Len(a) THEN a[i] ELSE 0

MaxOf(x, y) == IF x >= y THEN x ELSE y

RECURSIVE AddFrom(_, _, _, _)
AddFrom(a, b, i, carry) ==
    IF i > MaxOf(Len(a), Len(b))
    THEN (IF carry = 0 THEN <<>> ELSE <<carry>>)
    ELSE LET s == Limb(a, i) + Limb(b, i) + carry
         IN  <<s % Base>> \o AddFrom(a, b, i + 1, s \div Base)

BigAdd(a, b) == AddFrom(a, b, 1, 0)

RECURSIVE SubFrom(_, _, _, _)
SubFrom(a, b, i, borrow) ==
    IF i > Len(a) THEN <<>>
    ELSE LET d == Limb(a, i) - Limb(b, i) - borrow
         IN  IF d < 0
             THEN <<d + Base>> \o SubFrom(a, b, i + 1, 1)
             ELSE <<d>> \o SubFrom(a, b, i + 1, 0)

(* a - b, for a >= b *)
BigSub(a, b) == Trim(SubFrom(a, b, 1, 0))

RECURSIVE CmpFrom(_, _, _)
CmpFrom(a, b, i) ==
    IF i = 0 THEN 0
    ELSE IF a[i] < b[i] THEN -1
    ELSE IF a[i] > b[i] THEN 1
    ELSE CmpFrom(a, b, i - 1)

(* -1, 0 or 1 as a < b, a = b, a > b *)
BigCmp(a, b) ==
    IF Len(a) < Len(b) THEN -1
    ELSE IF Len(a) > Len(b) THEN 1
    ELSE CmpFrom(a, b, Len(a))

RECURSIVE MulSmallFrom(_, _, _, _)
MulSmallFrom(a, k, i, carry) ==
    IF i > Len(a)
    THEN (IF carry = 0 THEN <<>> ELSE <<carry>>)
    ELSE LET p == a[i] * k + carry
         IN  <<p % Base>> \o MulSmallFrom(a, k, i + 1, p \div Base)

(* a * k, for 0 <= k < Base *)
BigMulSmall(a, k) == Trim(MulSmallFrom(a, k, 1, 0))

Zeros(n) == [i \in 1..n |-> 0]

RECURSIVE MulFrom(_, _, _)
MulFrom(a, b, j) ==
    IF j > Len(b) THEN <<>>
    ELSE BigAdd(Zeros(j - 1) \o BigMulSmall(a, b[j]), MulFrom(a, b, j + 1))

BigMul(a, b) == Trim(MulFrom(a, b, 1))

(* a * 2^n *)
BigShl(a, n) ==
    IF a = <<>> THEN <<>>
    ELSE Zeros(n \div 15) \o BigMulSmall(a, 2^(n % 15))

RECURSIVE DivSmallFrom(_, _, _, _)
DivSmallFrom(a, k, i, rem) ==
    IF i = 0 THEN <<>>
    ELSE LET cur == rem * Base + a[i]
         IN  DivSmallFrom(a, k, i - 1, cur % k) \o <<cur \div k>>

(* floor(a / k), for 0 < k < Base *)
BigDivSmall(a, k) == Trim(DivSmallFrom(a, k, Len(a), 0))

(* floor(a / 2^n) *)
BigShr(a, n) ==
    LET whole == n \div 15
        rest  == IF whole >= Len(a) THEN <<>> ELSE SubSeq(a, whole + 1, Len(a))
    IN  BigDivSmall(rest, 2^(n % 15))

RECURSIVE SmallBitLen(_)
SmallBitLen(n) == IF n = 0 THEN 0 ELSE 1 + SmallBitLen(n \div 2)

(* number of significant bits of a *)
BigBitLen(a) ==
    IF a = <<>> THEN 0 ELSE 15 * (Len(a) - 1) + SmallBitLen(a[Len(a)])

BigIsOdd(a) == a # <<>> /\ a[1] % 2 = 1

----------------------------------------------------------------------------
(* IEEE-754 binary64.                                                      *)

MantBits == 53

F64Zero == [neg |-> FALSE, man |-> <<>>, exp |-> 0]

(* The f64 nearest to (-1)^neg * mag * 2^exp, ties to even. *)
RoundF64(neg, mag, exp) ==
    LET len == BigBitLen(mag) IN
    IF len = 0 THEN F64Zero
    ELSE IF len <= MantBits
    THEN [neg |-> neg, man |-> BigShl(mag, MantBits - len),
          exp |-> exp - (MantBits - len)]
    ELSE LET s    == len - MantBits
             q    == BigShr(mag, s)
             r    == BigSub(mag, BigShl(q, s))
             half == BigShl(<<1>>, s - 1)
             c    == BigCmp(r, half)
             up   == c = 1 \/ (c = 0 /\ BigIsOdd(q))
             q1   == IF up THEN BigAdd(q, <<1>>) ELSE q
         IN  IF BigBitLen(q1) > MantBits
             THEN [neg |-> neg, man |-> BigShr(q1, 1), exp |-> exp + s + 1]
             ELSE [neg |-> neg, man |-> q1, exp |-> exp + s]

(* i as f64, for an integer i small enough to be exact *)
F64OfInt(i) ==
    IF i < 0 THEN RoundF64(TRUE, BigOfInt(-i), 0)
    ELSE RoundF64(FALSE, BigOfInt(i), 0)

(* 2.0^k *)
F64Pow2(k) == RoundF64(FALSE, <<1>>, k)

MinOf(x, y) == IF x <= y THEN x ELSE y

(* a + b *)
F64Add(a, b) ==
    IF a.man = <<>> THEN b
    ELSE IF b.man = <<>> THEN a
    ELSE LET e  == MinOf(a.exp, b.exp)
             am == BigShl(a.man, a.exp - e)
             bm == BigShl(b.man, b.exp - e)
         IN  IF a.neg = b.neg THEN RoundF64(a.neg, BigAdd(am, bm), e)
             ELSE IF BigCmp(am, bm) >= 0 THEN RoundF64(a.neg, BigSub(am, bm), e)
             ELSE RoundF64(b.neg, BigSub(bm, am), e)

F64Neg(a) == IF a.man = <<>> THEN a ELSE [a EXCEPT !.neg = ~a.neg]

(* a - b *)
F64Sub(a, b) == F64Add(a, F64Neg(b))

(* a * b *)
F64Mul(a, b) ==
    IF a.man = <<>> \/ b.man = <<>> THEN F64Zero
    ELSE RoundF64(a.neg # b.neg, BigMul(a.man, b.man), a.exp + b.exp)


(* a / b, for b with at most 15 significant bits (every integer below     *)
(* 2^15 is one): b is d * 2^(b.exp + 38) for a one-limb d.  The quotient   *)
(* of the mantissas is taken to at least 55 bits and a sticky bit records  *)
(* whether the division left a remainder; then it is rounded.              *)
F64Div(a, b) ==
    LET d   == BigShr(b.man, MantBits - 15)
        num == BigShl(a.man, 18)
        q   == BigDivSmall(num, d[1])
        r   == BigSub(num, BigMulSmall(q, d[1]))
        q2  == BigMulSmall(q, 2)
        m   == IF r = <<>> THEN q2 ELSE BigAdd(q2, <<1>>)
    IN  IF a.man = <<>> THEN F64Zero
        ELSE RoundF64(a.neg # b.neg, m, a.exp - b.exp - (MantBits - 15) - 19)

----------------------------------------------------------------------------
(* The constants and the smoothing step.                                   *)

N_OBSERVATIONS == 5

SMOOTHING == F64OfInt(2)

ALPHA == F64Div(SMOOTHING, F64OfInt(1 + N_OBSERVATIONS))

(* a slip of sign in the smoothing step *)
compute_ema_sign(prev_ema, price) ==
    F64Add(prev_ema, F64Mul(ALPHA, F64Sub(prev_ema, price)))

compute_ema(prev_ema, price) ==
    F64Add(prev_ema, F64Mul(ALPHA, F64Sub(price, prev_ema)))

(* Option<f64> *)
None == [some |-> FALSE]
Some(v) == [some |-> TRUE, val |-> v]
IsSome(o) == o.some

----------------------------------------------------------------------------
(* EmaFast                                                                 *)

EmaFast_default == [result |-> None, last |-> F64Zero, count |-> 0]

(* get_result that takes the value out of the field it reads *)
EmaFast_get_result_take(self) ==
    [self |-> [self EXCEPT !.result = None], ret |-> self.result]

(* get_result(&self): the state it leaves and the value it returns *)
EmaFast_get_result(self) == [self |-> self, ret |-> self.result]

(* update with <= in place of < in the test for availability *)
EmaFast_update_le(self, new_price) ==
    LET last  == IF self.count = 0 THEN new_price
                 ELSE compute_ema(self.last, new_price)
        count == self.count + 1
    IN  [result |-> IF count <= N_OBSERVATIONS THEN None ELSE Some(last),
         last   |-> last,
         count  |-> count]

(* update that smooths the first observation too, from the default 0.0 *)
EmaFast_update_no_seed(self, new_price) ==
    LET last  == compute_ema(self.last, new_price)
        count == self.count + 1
    IN  [result |-> IF count < N_OBSERVATIONS THEN None ELSE Some(last),
         last   |-> last,
         count  |-> count]

(* update that keeps the default last value on the first observation *)
EmaFast_update_skip_first(self, new_price) ==
    LET last  == IF self.count = 0 THEN self.last
                 ELSE compute_ema(self.last, new_price)
        count == self.count + 1
    IN  [result |-> IF count < N_OBSERVATIONS THEN None ELSE Some(last),
         last   |-> last,
         count  |-> count]

EmaFast_update(self, new_price) ==
    LET last  == IF self.count = 0 THEN new_price
                 ELSE compute_ema(self.last, new_price)
        count == self.count + 1
    IN  [result |-> IF count < N_OBSERVATIONS THEN None ELSE Some(last),
         last   |-> last,
         count  |-> count]

----------------------------------------------------------------------------
(* EmaCorrect                                                              *)

EmaCorrect_default == [result |-> None, window |-> <<>>]

EmaCorrect_get_result(self) == [self |-> self, ret |-> self.result]

(* the loop stopping one element early *)
RECURSIVE WindowLoop_short(_, _, _)
WindowLoop_short(window, i, result) ==
    IF i >= N_OBSERVATIONS - 1 THEN result
    ELSE WindowLoop_short(window, i + 1, compute_ema(result, window[i + 1]))

(* for i in i..N_OBSERVATIONS (0-based, exclusive):                        *)
(*     result = compute_ema(result, window[i])                             *)
RECURSIVE WindowLoop(_, _, _)
WindowLoop(window, i, result) ==
    IF i >= N_OBSERVATIONS THEN result
    ELSE WindowLoop(window, i + 1, compute_ema(result, window[i + 1]))

(* update that never removes the oldest element *)
EmaCorrect_update_no_evict(self, new_price) ==
    LET window == Append(self.window, new_price)
    IN  [result |-> IF Len(window) < N_OBSERVATIONS THEN None
                    ELSE Some(WindowLoop(window, 1, window[1])),
         window |-> window]

(* update that empties a full window instead of removing its oldest element *)
EmaCorrect_update_clear(self, new_price) ==
    LET kept   == IF Len(self.window) = N_OBSERVATIONS
                  THEN <<>> ELSE self.window
        window == Append(kept, new_price)
    IN  [result |-> IF Len(window) < N_OBSERVATIONS THEN None
                    ELSE Some(WindowLoop(window, 1, window[1])),
         window |-> window]

(* update that removes the newest element of a full window, not the oldest *)
EmaCorrect_update_pop(self, new_price) ==
    LET kept   == IF Len(self.window) = N_OBSERVATIONS
                  THEN SubSeq(self.window, 1, Len(self.window) - 1)
                  ELSE self.window
        window == Append(kept, new_price)
    IN  [result |-> IF Len(window) < N_OBSERVATIONS THEN None
                    ELSE Some(WindowLoop(window, 1, window[1])),
         window |-> window]

EmaCorrect_update(self, new_price) ==
    LET kept   == IF Len(self.window) = N_OBSERVATIONS
                  THEN Tail(self.window) ELSE self.window
        window == Append(kept, new_price)
    IN  [result |-> IF Len(window) < N_OBSERVATIONS THEN None
                    ELSE Some(WindowLoop(window, 1, window[1])),
         window |-> window]

----------------------------------------------------------------------------
(* The state: two instances of each engine, what each has been fed so far   *)
(* (fed*, history variables) and what get_result last returned since the   *)
(* instance's latest update (ret*, NotCalled when it was not called).      *)

VARIABLES emaFast, emaCorrect, fedFast, fedCorrect, retFast, retCorrect

vars == <<emaFast, emaCorrect, fedFast, fedCorrect, retFast, retCorrect>>

Inst == {1, 2}

NotCalled == [called |-> FALSE]
Returned(o) == [called |-> TRUE, value |-> o]

Init ==
    /\ emaFast = [i \in Inst |-> EmaFast_default]
    /\ emaCorrect = [i \in Inst |-> EmaCorrect_default]
    /\ fedFast = [i \in Inst |-> <<>>]
    /\ fedCorrect = [i \in Inst |-> <<>>]
    /\ retFast = [i \in Inst |-> NotCalled]
    /\ retCorrect = [i \in Inst |-> NotCalled]

FastUpdate(i, new_price) ==
    /\ emaFast' = [emaFast EXCEPT ![i] = EmaFast_update(@, new_price)]
    /\ fedFast' = [fedFast EXCEPT ![i] = Append(@, new_price)]
    /\ retFast' = [retFast EXCEPT ![i] = NotCalled]
    /\ UNCHANGED <<emaCorrect, fedCorrect, retCorrect>>

FastGetResult(i) ==
    LET r == EmaFast_get_result(emaFast[i]) IN
    /\ emaFast' = [emaFast EXCEPT ![i] = r.self]
    /\ retFast' = [retFast EXCEPT ![i] = Returned(r.ret)]
    /\ UNCHANGED <<emaCorrect, fedFast, fedCorrect, retCorrect>>

CorrectUpdate(i, new_price) ==
    /\ emaCorrect' = [emaCorrect EXCEPT ![i] = EmaCorrect_update(@, new_price)]
    /\ fedCorrect' = [fedCorrect EXCEPT ![i] = Append(@, new_price)]
    /\ retCorrect' = [retCorrect EXCEPT ![i] = NotCalled]
    /\ UNCHANGED <<emaFast, fedFast, retFast>>

CorrectGetResult(i) ==
    LET r == EmaCorrect_get_result(emaCorrect[i]) IN
    /\ emaCorrect' = [emaCorrect EXCEPT ![i] = r.self]
    /\ retCorrect' = [retCorrect EXCEPT ![i] = Returned(r.ret)]
    /\ UNCHANGED <<emaFast, fedFast, fedCorrect, retFast>>

----------------------------------------------------------------------------
(* The callers.  The engines share no state, so a caller is only a choice  *)
(* of which observations reach which instance.                             *)

MaxUpdates == 6
MaxPrefix == 1

Big60 == F64Pow2(60)

(* observations: small integers and one value large enough that adding a   *)
(* small one to it is lost to rounding                                     *)
Obs == {F64OfInt(1), F64OfInt(2), Big60}

IsPrefix(s, t) == Len(s) <= Len(t) /\ s = SubSeq(t, 1, Len(s))

Drop(s, n) == SubSeq(s, n + 1, Len(s))

(* one stream fed to two instances, neither more than one observation ahead *)
InStep(h1, h2) ==
    \/ IsPrefix(h1, h2) /\ Len(h2) <= Len(h1) + 1
    \/ IsPrefix(h2, h1) /\ Len(h1) <= Len(h2) + 1

(* Observations for a pair of instances of one engine: the leading ones,   *)
(* which may differ between the two, and the ones of the stream they share *)
LeadObs == {F64OfInt(1), F64OfInt(2)}
SharedObs == {F64OfInt(1), Big60}

(* h is p leading observations followed by observations of the stream *)
LedBy(h, p) ==
    /\ p <= Len(h)
    /\ \A k \in 1..Len(h) : h[k] \in (IF k <= p THEN LeadObs ELSE SharedObs)

(* two histories that are one stream, in step, once at most MaxPrefix      *)
(* leading observations of each are set aside                              *)
Related(h1, h2) ==
    \E p1 \in 0..MaxPrefix, p2 \in 0..MaxPrefix :
        /\ LedBy(h1, p1)
        /\ LedBy(h2, p2)
        /\ InStep(Drop(h1, p1), Drop(h2, p2))

(* Spec: a caller feeds one stream of observations to one EmaFast and one  *)
(* EmaCorrect, each observation to the EmaFast first and then to the       *)
(* EmaCorrect, and reads either result at any time.                        *)
FeedFast ==
    \E x \in Obs :
        /\ Len(fedFast[1]) < MaxUpdates
        /\ fedCorrect[1] = fedFast[1]
        /\ FastUpdate(1, x)

FeedCorrect ==
    /\ Len(fedCorrect[1]) < Len(fedFast[1])
    /\ CorrectUpdate(1, fedFast[1][Len(fedCorrect[1]) + 1])

ReadFast == FastGetResult(1)

ReadCorrect == CorrectGetResult(1)

Next == FeedFast \/ FeedCorrect \/ ReadFast \/ ReadCorrect

Spec == Init /\ [][Next]_vars

(* SpecFeed: the same caller feeding the engines and never reading; the    *)
(* fields of the engines go through the same values as under Spec.         *)
NextFeed == FeedFast \/ FeedCorrect

SpecFeed == Init /\ [][NextFeed]_vars

(* SpecTest: the observations of tests::fast_basic_tests and               *)
(* tests::correct_basic_tests, 1, 2, ..., N_OBSERVATIONS and then          *)
(* N_OBSERVATIONS again, each test on its own instance.                    *)
TestInput ==
    [k \in 1..(N_OBSERVATIONS + 1) |->
        IF k <= N_OBSERVATIONS THEN F64OfInt(k) ELSE F64OfInt(N_OBSERVATIONS)]

TestFeedFast ==
    /\ Len(fedFast[1]) < Len(TestInput)
    /\ FastUpdate(1, TestInput[Len(fedFast[1]) + 1])

TestFeedCorrect ==
    /\ Len(fedCorrect[1]) < Len(TestInput)
    /\ CorrectUpdate(1, TestInput[Len(fedCorrect[1]) + 1])

NextTest == TestFeedFast \/ TestFeedCorrect \/ ReadFast \/ ReadCorrect

SpecTest == Init /\ [][NextTest]_vars

(* SpecFastPair, SpecCorrectPair: two instances of one engine, fed         *)
(* streams that agree after at most MaxPrefix leading observations each.   *)
PairFeedFast(i) ==
    \E x \in LeadObs \cup SharedObs :
        /\ Len(fedFast[i]) < MaxUpdates
        /\ Related(Append(fedFast[i], x), fedFast[3 - i])
        /\ FastUpdate(i, x)

NextFastPair == \E i \in Inst : PairFeedFast(i)

SpecFastPair == Init /\ [][NextFastPair]_vars

PairFeedCorrect(i) ==
    \E x \in LeadObs \cup SharedObs :
        /\ Len(fedCorrect[i]) < MaxUpdates
        /\ Related(Append(fedCorrect[i], x), fedCorrect[3 - i])
        /\ CorrectUpdate(i, x)

NextCorrectPair == \E i \in Inst : PairFeedCorrect(i)

SpecCorrectPair == Init /\ [][NextCorrectPair]_vars

----------------------------------------------------------------------------
(* What the properties are stated with.                                    *)

(* h[1] taken raw, then the smoothing step over h[2], ..., h[Len(h)] *)
RECURSIVE FoldEma(_)
FoldEma(h) ==
    IF Len(h) = 1 THEN h[1]
    ELSE compute_ema(FoldEma(SubSeq(h, 1, Len(h) - 1)), h[Len(h)])

(* the last min(Len(h), n) elements of h *)
LastN(h, n) == SubSeq(h, Len(h) - MinOf(n, Len(h)) + 1, Len(h))

(* the natural written with the decimal digits ds *)
RECURSIVE Decimal(_)
Decimal(ds) ==
    IF ds = <<>> THEN <<>>
    ELSE LET front == Decimal(SubSeq(ds, 1, Len(ds) - 1))
             digit == BigOfInt(ds[Len(ds)])
         IN  IF front = <<>> THEN digit
             ELSE BigAdd(BigMulSmall(front, 10), digit)

RECURSIVE Pow10(_)
Pow10(k) ==
    IF k <= 4 THEN BigOfInt(10^k) ELSE BigMulSmall(Pow10(k - 4), 10^4)

(* num / den lies less than half a unit in the last place from the         *)
(* positive f64 v with v.exp <= 0: v is the f64 nearest to num / den       *)
NearestF64(v, num, den) ==
    LET scaled == BigShl(num, 0 - v.exp)
        exact  == BigMul(v.man, den)
        diff   == IF BigCmp(scaled, exact) >= 0 THEN BigSub(scaled, exact)
                  ELSE BigSub(exact, scaled)
    IN  ~v.neg /\ v.exp <= 0 /\ BigCmp(BigMulSmall(diff, 2), den) < 0

(* v is the value of the decimal literal with digits ds, the last `places` *)
(* of them after the point                                                 *)
IsLiteral(v, ds, places) == NearestF64(v, Decimal(ds), Pow10(places))

Fast == emaFast[1]
Correct == emaCorrect[1]

OneToN == [k \in 1..N_OBSERVATIONS |-> F64OfInt(k)]

----------------------------------------------------------------------------
(* C1. Warm-up: after each of the first N_OBSERVATIONS - 1 updates of a    *)
(* fresh engine of either kind get_result returns None, and from the       *)
(* N_OBSERVATIONS-th update on it returns Some.                            *)
WarmUp ==
    /\ IsSome(Fast.result) <=> Len(fedFast[1]) >= N_OBSERVATIONS
    /\ IsSome(Correct.result) <=> Len(fedCorrect[1]) >= N_OBSERVATIONS
    /\ retFast[1].called =>
           (IsSome(retFast[1].value) <=> Len(fedFast[1]) >= N_OBSERVATIONS)
    /\ retCorrect[1].called =>
           (IsSome(retCorrect[1].value) <=> Len(fedCorrect[1]) >= N_OBSERVATIONS)

WarmUpWitness ==
    /\ Len(fedFast[1]) = N_OBSERVATIONS
    /\ retFast[1].called /\ IsSome(retFast[1].value)
    /\ Len(fedCorrect[1]) = N_OBSERVATIONS - 1
    /\ retCorrect[1] = Returned(None)

(* C2. First-value agreement: fed 1, 2, ..., N_OBSERVATIONS, both engines  *)
(* report the same result, which is 1 folded with compute_ema over 2, ..., *)
(* N_OBSERVATIONS with ALPHA the f64 nearest to 1/3; it is the f64 written *)
(* 3.3950617283950617, the one nearest to 275/81.                          *)
FirstValueAgreement ==
    (Len(fedFast[1]) = N_OBSERVATIONS /\ Len(fedCorrect[1]) = N_OBSERVATIONS) =>
        /\ Fast.result = Correct.result
        /\ Fast.result = Some(FoldEma(OneToN))
        /\ NearestF64(ALPHA, <<1>>, <<3>>)
        /\ IsLiteral(Fast.result.val,
                     <<3, 3, 9, 5, 0, 6, 1, 7, 2, 8, 3, 9, 5, 0, 6, 1, 7>>, 16)
        /\ NearestF64(Fast.result.val, BigOfInt(275), BigOfInt(81))

FirstValueWitness ==
    /\ fedFast[1] = OneToN
    /\ fedCorrect[1] = OneToN
    /\ retFast[1].called /\ IsSome(retFast[1].value)
    /\ retCorrect[1] = retFast[1]

(* C3. Divergence: fed 1, 2, ..., N_OBSERVATIONS and then N_OBSERVATIONS   *)
(* once more, the engines report different results: EmaFast the f64        *)
(* written 3.9300411522633745 (nearest to 955/243), EmaCorrect the f64     *)
(* written 4.061728395061729 (nearest to 329/81).                          *)
Divergence ==
    (Len(fedFast[1]) = N_OBSERVATIONS + 1
        /\ Len(fedCorrect[1]) = N_OBSERVATIONS + 1) =>
        /\ IsSome(Fast.result) /\ IsSome(Correct.result)
        /\ Fast.result # Correct.result
        /\ IsLiteral(Fast.result.val,
                     <<3, 9, 3, 0, 0, 4, 1, 1, 5, 2, 2, 6, 3, 3, 7, 4, 5>>, 16)
        /\ NearestF64(Fast.result.val, BigOfInt(955), BigOfInt(243))
        /\ IsLiteral(Correct.result.val,
                     <<4, 0, 6, 1, 7, 2, 8, 3, 9, 5, 0, 6, 1, 7, 2, 9>>, 15)
        /\ NearestF64(Correct.result.val, BigOfInt(329), BigOfInt(81))

DivergenceWitness ==
    /\ fedFast[1] = TestInput
    /\ fedCorrect[1] = TestInput
    /\ retFast[1] = Returned(Fast.result)
    /\ retCorrect[1] = Returned(Correct.result)
    /\ retFast[1] # retCorrect[1]

(* C4. Monotonic availability: no step takes either engine from a result   *)
(* that is Some to a result that is None.                                  *)
AvailabilityMonotone ==
    [][/\ IsSome(Fast.result) => IsSome(emaFast'[1].result)
       /\ IsSome(Correct.result) => IsSome(emaCorrect'[1].result)]_vars

AvailabilityWitness ==
    /\ Len(fedFast[1]) > N_OBSERVATIONS /\ IsSome(Fast.result)
    /\ Len(fedCorrect[1]) > N_OBSERVATIONS /\ IsSome(Correct.result)
    /\ retFast[1].called /\ IsSome(retFast[1].value)
    /\ retCorrect[1].called /\ IsSome(retCorrect[1].value)

(* C5. Bounded FIFO window: after n updates the window of EmaCorrect is    *)
(* the last min(n, N_OBSERVATIONS) observations, oldest first, so it never *)
(* holds more than N_OBSERVATIONS.                                         *)
WindowIsLastObservations ==
    /\ Correct.window = LastN(fedCorrect[1], N_OBSERVATIONS)
    /\ Len(Correct.window) <= N_OBSERVATIONS

WindowEvictionWitness ==
    /\ Len(fedCorrect[1]) > N_OBSERVATIONS
    /\ Len(Correct.window) = N_OBSERVATIONS
    /\ Correct.window[1] # fedCorrect[1][1]
    /\ Correct.window[N_OBSERVATIONS] # fedCorrect[1][N_OBSERVATIONS]

(* C6. Window-only dependence: a result EmaCorrect reports is window[0]    *)
(* folded with compute_ema over the rest of the window, the window being   *)
(* the last N_OBSERVATIONS observations; so two instances whose histories  *)
(* end in the same N_OBSERVATIONS observations report equal results.       *)
WindowOnlyDependence ==
    /\ \A i \in Inst :
          IsSome(emaCorrect[i].result) =>
              /\ emaCorrect[i].window = LastN(fedCorrect[i], N_OBSERVATIONS)
              /\ emaCorrect[i].result = Some(FoldEma(emaCorrect[i].window))
    /\ (/\ Len(fedCorrect[1]) >= N_OBSERVATIONS
        /\ Len(fedCorrect[2]) >= N_OBSERVATIONS
        /\ LastN(fedCorrect[1], N_OBSERVATIONS) = LastN(fedCorrect[2], N_OBSERVATIONS))
       => emaCorrect[1].result = emaCorrect[2].result

WindowOnlyWitness ==
    /\ Len(fedCorrect[1]) > Len(fedCorrect[2])
    /\ Len(fedCorrect[2]) >= N_OBSERVATIONS
    /\ fedCorrect[1][1] # fedCorrect[2][1]
    /\ LastN(fedCorrect[1], N_OBSERVATIONS) = LastN(fedCorrect[2], N_OBSERVATIONS)
    /\ IsSome(emaCorrect[1].result)
    /\ emaCorrect[1].result = emaCorrect[2].result
    /\ emaCorrect[1].result # Some(fedCorrect[1][Len(fedCorrect[1])])

(* the two EmaFast instances have been fed sequences of one length that    *)
(* differ in the first observation and nowhere else                        *)
DifferOnlyInFirst ==
    /\ Len(fedFast[1]) = Len(fedFast[2])
    /\ Len(fedFast[1]) >= 1
    /\ fedFast[1][1] # fedFast[2][1]
    /\ Tail(fedFast[1]) = Tail(fedFast[2])

(* C7, as stated: two EmaFast instances fed sequences that differ only in  *)
(* the first observation hold different last values, and report different  *)
(* results once available, after any number of further updates.            *)
FirstObservationAlwaysFelt ==
    DifferOnlyInFirst =>
        /\ emaFast[1].last # emaFast[2].last
        /\ IsSome(emaFast[1].result) => emaFast[1].result # emaFast[2].result

(* C7, amended: they hold different last values after the first update;    *)
(* once their last values have coincided after some update (rounding has   *)
(* absorbed the difference) they coincide after every later one; and once  *)
(* results are available these differ exactly when the last values do.     *)
FirstObservationFeltUntilAbsorbed ==
    DifferOnlyInFirst =>
        /\ Len(fedFast[1]) = 1 => emaFast[1].last # emaFast[2].last
        /\ \A k \in 1..(Len(fedFast[1]) - 1) :
              FoldEma(SubSeq(fedFast[1], 1, k)) = FoldEma(SubSeq(fedFast[2], 1, k))
                  => emaFast[1].last = emaFast[2].last
        /\ IsSome(emaFast[1].result) =>
              /\ IsSome(emaFast[2].result)
              /\ (emaFast[1].result = emaFast[2].result
                    <=> emaFast[1].last = emaFast[2].last)

(* the first observation still felt after more than N_OBSERVATIONS updates *)
FirstObservationFeltWitness ==
    /\ DifferOnlyInFirst
    /\ Len(fedFast[1]) > N_OBSERVATIONS
    /\ IsSome(emaFast[1].result)
    /\ emaFast[1].result # emaFast[2].result

(* C8. Idempotent, side-effect-free read: a get_result step changes no     *)
(* field of either engine and returns the result field; a second call      *)
(* with no update in between returns what the first returned.              *)
ReadIsPure ==
    [][/\ ReadFast =>
            /\ emaFast' = emaFast /\ emaCorrect' = emaCorrect
            /\ retFast'[1] = Returned(Fast.result)
            /\ retFast[1].called => retFast'[1] = retFast[1]
       /\ ReadCorrect =>
            /\ emaFast' = emaFast /\ emaCorrect' = emaCorrect
            /\ retCorrect'[1] = Returned(Correct.result)
            /\ retCorrect[1].called => retCorrect'[1] = retCorrect[1]]_vars

ReadWitness ==
    /\ Len(fedFast[1]) >= N_OBSERVATIONS
    /\ retFast[1] = Returned(Fast.result) /\ IsSome(Fast.result)
    /\ Len(fedCorrect[1]) >= N_OBSERVATIONS
    /\ retCorrect[1] = Returned(Correct.result) /\ IsSome(Correct.result)

(* C9. EmaFast recurrence and availability: after n >= 1 updates count is  *)
(* n, last is the first observation, raw, folded with compute_ema over the *)
(* later ones, and the result is Some(last) if n >= N_OBSERVATIONS and     *)
(* None otherwise.                                                         *)
FastRecurrence ==
    LET h == fedFast[1] IN
    /\ Fast.count = Len(h)
    /\ Len(h) >= 1 => Fast.last = FoldEma(h)
    /\ Fast.result = IF Len(h) >= N_OBSERVATIONS THEN Some(Fast.last) ELSE None

FastRecurrenceWitness ==
    /\ Fast.count > N_OBSERVATIONS
    /\ Fast.result = Some(Fast.last)
    /\ Fast.last # fedFast[1][1]
    /\ Fast.last # fedFast[1][Len(fedFast[1])]

(* both engines have been fed the same n observations *)
BothFed(n) == Len(fedFast[1]) = n /\ fedCorrect[1] = fedFast[1]

(* C10, as stated: the results are equal after the N_OBSERVATIONS-th       *)
(* update, and after the next one they are equal if and only if the first  *)
(* two observations are equal.                                             *)
DivergeIffFirstTwoDiffer ==
    /\ BothFed(N_OBSERVATIONS) => Fast.result = Correct.result
    /\ BothFed(N_OBSERVATIONS + 1) =>
          (Fast.result = Correct.result <=> fedFast[1][1] = fedFast[1][2])

(* C10, amended: the results are equal after the N_OBSERVATIONS-th update; *)
(* after the next one they are equal if the first two observations are     *)
(* equal; and a constant stream never makes the engines diverge.           *)
AgreeIfFirstTwoEqual ==
    /\ BothFed(N_OBSERVATIONS) =>
          IsSome(Fast.result) /\ Fast.result = Correct.result
    /\ (BothFed(N_OBSERVATIONS + 1) /\ fedFast[1][1] = fedFast[1][2]) =>
          IsSome(Fast.result) /\ Fast.result = Correct.result
    /\ (fedCorrect[1] = fedFast[1]
          /\ \A k \in 1..Len(fedFast[1]) : fedFast[1][k] = fedFast[1][1]) =>
          Fast.result = Correct.result

AgreeWitness ==
    /\ BothFed(N_OBSERVATIONS + 1)
    /\ fedFast[1][1] = fedFast[1][2]
    /\ fedFast[1][2] # fedFast[1][3]
    /\ IsSome(Fast.result)
    /\ Fast.result = Correct.result
    /\ Fast.result # Some(fedFast[1][1])

====
